---- MODULE Spec2Model ----
(***************************************************************************)
(* A model of worstpractice/obset: the observable, capacity-bounded set    *)
(* ObSet of src/src/index.ts and the ArrayMap-backed revisions of          *)
(* src/src/ObSet.ts.  Objects are records; every method is an operator     *)
(* from the object (plus what the call has dispatched so far) to the       *)
(* object after the call; every public call is one action.                 *)
(***************************************************************************)
EXTENDS Integers, Sequences, FiniteSets, TLC

\* ------------------------------------------------------------------ bounds
\* longest initialValues handed to a constructor
MaxInit == 2
\* largest finite capacity option
MaxCapacity == 2
\* most on/once registrations made on one set
MaxRegistrations == 1
\* most calls recorded by the histories of SpecTrace
MaxCalls == 3
\* longest internal array of an ArrayMap that add is applied to
MaxLength == 2
\* most on/once registrations made on one set of SpecOff
MaxListeners == 2

\* ------------------------------------------------------------ value domains
Values == {"a", "b", "c"}

UNDEFINED == "undefined"

SET_OPERATIONS == {"add", "empty", "full", "remove"}

ReplacementPolicy == {"FIFO", "LIFO"}

\* the callbacks a client registers; they do not call back into the set
ListenerIds == {"f", "g"}

\* Number.POSITIVE_INFINITY and the finite numbers, as tagged records
POSITIVE_INFINITY == [finite |-> FALSE, n |-> 0]

Num(n) == [finite |-> TRUE, n |-> n]

\* JavaScript's `!x` on a number: only 0 is falsy (infinity is truthy)
Falsy(x) == x.finite /\ x.n = 0

\* JavaScript's `n < x` for an integer n
LessThan(n, x) == IF x.finite THEN n < x.n ELSE TRUE

InitialValuesInputs == UNION {[1..k -> Values] : k \in 0..MaxInit}

\* ------------------------------------------------- arrays and ordered sets
includes(array, x) == \E i \in 1..Len(array) : array[i] = x

\* Array.prototype.indexOf, 0-based, -1 when absent
indexOf(array, x) ==
  IF includes(array, x)
    THEN (CHOOSE i \in 1..Len(array) : array[i] = x /\ \A j \in 1..(i - 1) : array[j] /= x) - 1
    ELSE -1

\* Set.prototype.add on an insertion-ordered set
SetAdd(set, x) == IF includes(set, x) THEN set ELSE Append(set, x)

\* Set.prototype.delete on an insertion-ordered set
SetDelete(set, x) == SelectSeq(set, LAMBDA e : e /= x)

\* swapPop(array, index) of the swappop package: array[index] = last; pop()
\* (index is 0-based; writing past the end pads the array, as JavaScript does)
swapPop(array, index) ==
  LET len == Len(array)
      last == IF len = 0 THEN UNDEFINED ELSE array[len]
      top == IF index + 1 > len THEN index + 1 ELSE len
      assigned == [k \in 1..top |->
                     IF k = index + 1 THEN last
                     ELSE IF k <= len THEN array[k] ELSE UNDEFINED]
  IN SubSeq(assigned, 1, top - 1)

\* ---------------------------------------------------- ObSet of src/index.ts
\* a Map or a plain object: a function whose domain is the keys it holds
EmptyMap == [key \in {} |-> TRUE]

\* a property of a MaybeListeners object: a Set of listeners, or undefined
SetOf(listeners) == [defined |-> TRUE, set |-> listeners]

UndefinedSet == [defined |-> FALSE, set |-> <<>>]

\* new ObSet({initialValues, options})
RECURSIVE construct(_, _)

\* a constructor that keeps every initial value it is given
constructKeepingDuplicates(o, initialValues) ==
  IF initialValues = <<>> THEN o
  ELSE [o EXCEPT !.store = initialValues,
                 !.leastRecentlyAdded = Head(initialValues),
                 !.mostRecentlyAdded = initialValues[Len(initialValues)]]

construct(o, initialValues) ==
  IF initialValues = <<>> THEN o
  ELSE LET value == Head(initialValues)
           o1 == IF Len(o.store) = 0 THEN [o EXCEPT !.leastRecentlyAdded = value] ELSE o
           o2 == [o1 EXCEPT !.store = SetAdd(@, value), !.mostRecentlyAdded = value]
       IN construct(o2, Tail(initialValues))

ObSet(initialValues, options) ==
  construct([store |-> <<>>,
             options |-> options,
             leastRecentlyAdded |-> UNDEFINED,
             mostRecentlyAdded |-> UNDEFINED,
             oneTimeListeners |-> <<>>,
             operationListeners |-> [op \in SET_OPERATIONS |-> <<>>],
             valueListeners |-> EmptyMap],
            initialValues)

\* the options object after the defaults of the constructor are applied
DefaultOptions ==
  [capacity |-> POSITIVE_INFINITY, freeUnusedResources |-> TRUE, replacementPolicy |-> "FIFO"]

OptionsInputs ==
  {DefaultOptions}
    \cup {[capacity |-> Num(c), freeUnusedResources |-> TRUE, replacementPolicy |-> p] :
            c \in 0..MaxCapacity, p \in ReplacementPolicy}

size(o) == Len(o.store)

has(o, value) == includes(o.store, value)

isEmpty(o) == size(o) = 0

isFull(o) ==
  IF isEmpty(o) THEN FALSE
  ELSE IF Falsy(o.options.capacity) THEN FALSE
  ELSE LessThan(size(o), o.options.capacity)

\* isFull of the earlier revision: it keeps the options as given and reads an
\* absent capacity as 0 (`const { capacity = 0 } = this.options`); a set
\* constructed without options is one with DefaultOptions here
earlier_isFull(o) ==
  LET capacity == IF o.options = DefaultOptions THEN Num(0) ELSE o.options.capacity
  IN IF isEmpty(o) THEN FALSE
     ELSE IF Falsy(capacity) THEN FALSE
     ELSE LessThan(size(o), capacity)

deleteOneTimeListener(o, listener) ==
  LET listenerIndex == indexOf(o.oneTimeListeners, listener)
  IN IF listenerIndex /= -1
       THEN [o EXCEPT !.oneTimeListeners = swapPop(@, listenerIndex)]
       ELSE o

\* the first loop of dispatchEvent, over the operation's listeners from the
\* k-th on (a listener deleted while the Set is iterated is not revisited)
RECURSIVE notifyOperationListeners(_, _, _, _, _)
notifyOperationListeners(o, operation, value, listeners, k) ==
  IF k > Len(listeners) THEN o
  ELSE LET listener == listeners[k]
           called == [o EXCEPT !.invoked = Append(@, <<listener, operation, value>>)]
           after ==
             IF ~includes(called.oneTimeListeners, listener) THEN called
             ELSE deleteOneTimeListener(
                    [called EXCEPT !.operationListeners[operation] = SetDelete(@, listener)],
                    listener)
       IN notifyOperationListeners(after, operation, value, listeners, k + 1)

\* the second loop of dispatchEvent, over the listeners of (value, operation)
RECURSIVE notifyEventListeners(_, _, _, _, _)
notifyEventListeners(o, operation, value, listeners, k) ==
  IF k > Len(listeners) THEN o
  ELSE LET listener == listeners[k]
           called == [o EXCEPT !.invoked = Append(@, <<listener, operation, value>>)]
           after ==
             IF ~includes(called.oneTimeListeners, listener) THEN called
             ELSE deleteOneTimeListener(
                    [called EXCEPT
                       !.valueListeners[value][operation].set = SetDelete(@, listener)],
                    listener)
       IN notifyEventListeners(after, operation, value, listeners, k + 1)

\* what a dispatchEvent call is recorded as: its arguments and the members then
Event(operation, value, store) == [operation |-> operation, value |-> value, store |-> store]

\* a dispatchEvent that tells the listeners of (value, operation) before those
\* of the operation
dispatchEventValueFirst(o, operation, value) ==
  LET begun == [o EXCEPT !.events = Append(@, Event(operation, value, o.store))]
      eventListeners ==
        IF value \in DOMAIN begun.valueListeners
             /\ operation \in DOMAIN begun.valueListeners[value]
          THEN begun.valueListeners[value][operation]
          ELSE UndefinedSet
      o1 == IF ~eventListeners.defined THEN begun
            ELSE notifyEventListeners(begun, operation, value, eventListeners.set, 1)
  IN notifyOperationListeners(o1, operation, value, o1.operationListeners[operation], 1)

dispatchEvent(o, operation, value) ==
  LET begun == [o EXCEPT !.events = Append(@, Event(operation, value, o.store))]
      o1 == notifyOperationListeners(begun, operation, value,
                                     begun.operationListeners[operation], 1)
      eventListeners ==
        IF value \in DOMAIN o1.valueListeners /\ operation \in DOMAIN o1.valueListeners[value]
          THEN o1.valueListeners[value][operation]
          ELSE UndefinedSet
  IN IF ~eventListeners.defined THEN o1
     ELSE notifyEventListeners(o1, operation, value, eventListeners.set, 1)

\* a delete that tells the listeners of empty before those of remove
deleteEmptyFirst(o, value) ==
  IF ~has(o, value) THEN o
  ELSE LET o1 == [o EXCEPT !.store = SetDelete(@, value)]
           o2 == IF isEmpty(o1) THEN dispatchEvent(o1, "empty", value) ELSE o1
       IN dispatchEvent(o2, "remove", value)

\* delete(value), and its alias remove(value)
delete(o, value) ==
  IF ~has(o, value) THEN o
  ELSE LET o1 == [o EXCEPT !.store = SetDelete(@, value)]
           o2 == dispatchEvent(o1, "remove", value)
       IN IF isEmpty(o2) THEN dispatchEvent(o2, "empty", value) ELSE o2

RECURSIVE add(_, _)

\* how a call ends that recursed without end
Recursion == "recursion without end"

\* how a call ends that goes on without end
NeverReturns == "never returns"

\* replace(value): delete the tracked value, then add(value) again.  When the
\* delete removes nothing the nested add meets the very same state and calls
\* replace again, without end (see Outcomes) and nothing more has happened.
replace(o, value) ==
  LET victim == IF o.options.replacementPolicy = "FIFO"
                  THEN o.leastRecentlyAdded
                  ELSE o.mostRecentlyAdded
      o1 == delete(o, victim)
  IN IF o1.store = o.store
       THEN [o1 EXCEPT !.thrown = Recursion]
       ELSE add(o1, value)

\* an insertion that dispatches no add event
insertUnannounced(o, value) ==
  LET o1 == IF isEmpty(o) THEN [o EXCEPT !.leastRecentlyAdded = value] ELSE o
      o2 == [o1 EXCEPT !.store = SetAdd(@, value), !.mostRecentlyAdded = value]
  IN IF isFull(o2) THEN dispatchEvent(o2, "full", value) ELSE o2

\* the last lines of add(value): the insertion and its events
insert(o, value) ==
  LET o1 == IF isEmpty(o) THEN [o EXCEPT !.leastRecentlyAdded = value] ELSE o
      o2 == [o1 EXCEPT !.store = SetAdd(@, value), !.mostRecentlyAdded = value]
      o3 == dispatchEvent(o2, "add", value)
  IN IF isFull(o3) THEN dispatchEvent(o3, "full", value) ELSE o3

\* an add that does not test membership first
addWithoutMembershipTest(o, value) ==
  IF isFull(o) THEN replace(o, value) ELSE insert(o, value)

add(o, value) ==
  IF has(o, value) THEN o
  ELSE IF isFull(o) THEN replace(o, value)
  ELSE insert(o, value)

onOperation(o, operation, listener, once) ==
  LET o1 == [o EXCEPT !.operationListeners[operation] = SetAdd(@, listener)]
  IN IF once THEN [o1 EXCEPT !.oneTimeListeners = Append(@, listener)] ELSE o1

\* initOperationListenersFor and initEventListenersFor are inlined: a missing
\* bucket starts as {} and a missing or undefined set as an empty Set
onValue(o, operation, value, listener, once) ==
  LET operationListeners ==
        IF value \in DOMAIN o.valueListeners THEN o.valueListeners[value] ELSE EmptyMap
      eventListeners ==
        IF operation \in DOMAIN operationListeners /\ operationListeners[operation].defined
          THEN operationListeners[operation].set
          ELSE <<>>
      o1 == [o EXCEPT !.valueListeners =
               (value :> ((operation :> SetOf(SetAdd(eventListeners, listener)))
                            @@ operationListeners)) @@ @]
  IN IF once THEN [o1 EXCEPT !.oneTimeListeners = Append(@, listener)] ELSE o1

\* isEmpty(object) of utils/isEmpty.js.  Under "keys" an object is empty when
\* it has no own key; under "sets" when none of its keys holds a Set (a key set
\* to undefined does not count).  Both readings are explored.
EmptyReadings == {"keys", "sets"}

utils_isEmpty(object, reading) ==
  IF reading = "keys" THEN DOMAIN object = {}
  ELSE \A key \in DOMAIN object : ~object[key].defined

\* Object.entries(operationListeners) destructured as [operation, { size }]:
\* an entry that holds undefined cannot be destructured
Destructurable(operationListeners) ==
  \A operation \in DOMAIN operationListeners : operationListeners[operation].defined

findOperationsWithoutListenersIn(operationListeners) ==
  {operation \in DOMAIN operationListeners : operationListeners[operation].set = <<>>}

\* the first loop of freeUnusedResourcesIn: operationListeners[operation] = undefined
freeSets(operationListeners) ==
  [operation \in DOMAIN operationListeners |->
     IF operation \in findOperationsWithoutListenersIn(operationListeners)
       THEN UndefinedSet
       ELSE operationListeners[operation]]

\* Map.prototype.delete
MapDelete(map, key) == [k \in DOMAIN map \ {key} |-> map[k]]

freeUnusedResourcesIn(o, value, reading) ==
  IF ~Destructurable(o.valueListeners[value]) THEN [o EXCEPT !.thrown = "TypeError"]
  ELSE LET o1 == [o EXCEPT !.valueListeners[value] = freeSets(@)]
       IN IF utils_isEmpty(o1.valueListeners[value], reading) THEN o1
          ELSE [o1 EXCEPT !.valueListeners = MapDelete(@, value)]

\* off up to and including deleteOneTimeListener(listener)
offListener(o, operation, value, listener) ==
  deleteOneTimeListener(
    [o EXCEPT !.valueListeners[value][operation].set = SetDelete(@, listener)],
    listener)

off(o, operation, value, listener, reading) ==
  IF value \notin DOMAIN o.valueListeners THEN o
  ELSE IF operation \notin DOMAIN o.valueListeners[value]
            \/ ~o.valueListeners[value][operation].defined THEN o
  ELSE LET o1 == offListener(o, operation, value, listener)
       IN IF o.options.freeUnusedResources
            THEN freeUnusedResourcesIn(o1, value, reading)
            ELSE o1

\* clear(): delete(value) for every value the iteration of the Set meets; a
\* value deleted by the previous step is not met again
\* ---- listeners that call on and off while they are invoked
\* f and g call nothing.  again is `() => set.off(operation, value, again)
\* .on(operation, value, again)`, dropF is `() => set.off(operation, value, f)`,
\* addF is `() => set.on(operation, value, f)` and swapF is
\* `() => set.off(operation, value, swapF).on(operation, value, f)`,
\* with the operation and value of the event they are invoked for.
CallingIds == {"f", "again", "dropF"}

RegisteringIds == {"f", "addF", "swapF"}

Body(listener) ==
  IF listener = "again"
    THEN << [name |-> "off", listener |-> "again"], [name |-> "on", listener |-> "again"] >>
  ELSE IF listener = "dropF" THEN << [name |-> "off", listener |-> "f"] >>
  ELSE IF listener = "addF" THEN << [name |-> "on", listener |-> "f"] >>
  ELSE IF listener = "swapF"
    THEN << [name |-> "off", listener |-> "swapF"], [name |-> "on", listener |-> "f"] >>
  ELSE <<>>

\* 1-based position of x in a Set, 0 when it is not there
Position(set, x) == indexOf(set, x) + 1

\* Set.prototype.delete on the Set a for...of loop is iterating: done counts the
\* entries the loop is past, and an entry deleted from among them is one fewer
DeleteIterated(pass, x) ==
  LET p == Position(pass.iterated, x)
  IN [pass EXCEPT !.iterated = SetDelete(@, x),
                  !.done = IF p >= 1 /\ p <= pass.done THEN @ - 1 ELSE @]

\* whether the Map holds a Set for (operation, value)
Holds(o, operation, value) ==
  /\ value \in DOMAIN o.valueListeners
  /\ operation \in DOMAIN o.valueListeners[value]
  /\ o.valueListeners[value][operation].defined

\* one call a listener makes.  pass.iterated is the Set the loop of
\* dispatchEvent holds (eventListeners); it is the Set of the Map
\* (pass.attached) until off replaces that Set by undefined or deletes the
\* value's entry, and a Set created by a later on is another object.
ListenerCalls(pass, c, operation, value, reading) ==
  IF pass.o.thrown /= "none" THEN pass
  ELSE LET o1 == IF c.name = "off"
                   THEN off(pass.o, operation, value, c.listener, reading)
                   ELSE onValue(pass.o, operation, value, c.listener, FALSE)
           reached == IF ~pass.attached THEN pass
                      ELSE IF c.name = "off" THEN DeleteIterated(pass, c.listener)
                      ELSE [pass EXCEPT !.iterated = SetAdd(@, c.listener)]
       IN [reached EXCEPT !.o = o1,
                          !.attached = pass.attached /\ Holds(o1, operation, value)]

RECURSIVE ListenerRuns(_, _, _, _, _)
ListenerRuns(pass, body, operation, value, reading) ==
  IF body = <<>> THEN pass
  ELSE ListenerRuns(ListenerCalls(pass, Head(body), operation, value, reading),
                    Tail(body), operation, value, reading)

\* the lines of the loop after listener(value, operation, this)
AfterListener(pass, listener, operation, value) ==
  IF pass.o.thrown /= "none" \/ ~includes(pass.o.oneTimeListeners, listener) THEN pass
  ELSE LET deleted == DeleteIterated(pass, listener)
           o1 == IF pass.attached
                   THEN [pass.o EXCEPT !.valueListeners[value][operation].set =
                                         SetDelete(@, listener)]
                   ELSE pass.o
       IN [deleted EXCEPT !.o = deleteOneTimeListener(o1, listener)]

\* the second loop of dispatchEvent with such listeners: a for...of over a Set
\* visits the entries in insertion order, those added during the loop
\* included, and ends when no entry is left to visit.  A pass that comes back
\* to a state it was in (seen) goes on without end.
RECURSIVE notifyCallingListeners(_, _, _, _, _)
notifyCallingListeners(pass, operation, value, reading, seen) ==
  IF pass.o.thrown /= "none" \/ pass.done >= Len(pass.iterated) THEN pass.o
  ELSE LET here == [pass EXCEPT !.o.invoked = <<>>]
           listener == pass.iterated[pass.done + 1]
           called == [pass EXCEPT !.o.invoked = Append(@, <<listener, operation, value>>),
                                  !.done = @ + 1]
           ran == ListenerRuns(called, Body(listener), operation, value, reading)
       IN IF here \in seen THEN [pass.o EXCEPT !.thrown = NeverReturns]
          ELSE notifyCallingListeners(AfterListener(ran, listener, operation, value),
                                      operation, value, reading, seen \cup {here})

\* the first loop of dispatchEvent with such listeners.  Their calls are
\* on(operation, value, listener) and off(operation, value, listener), which
\* leave the Set of the operation's listeners alone: the loop only loses the
\* one-shot listener it has just invoked, as in notifyOperationListeners.
RECURSIVE notifyCallingOperationListeners(_, _, _, _, _, _)
notifyCallingOperationListeners(o, operation, value, listeners, k, reading) ==
  IF k > Len(listeners) \/ o.thrown /= "none" THEN o
  ELSE LET listener == listeners[k]
           called == [o EXCEPT !.invoked = Append(@, <<listener, operation, value>>)]
           ran == ListenerRuns([o |-> called, iterated |-> <<>>, attached |-> FALSE,
                                done |-> 0],
                               Body(listener), operation, value, reading).o
           after ==
             IF ran.thrown /= "none" \/ ~includes(ran.oneTimeListeners, listener) THEN ran
             ELSE deleteOneTimeListener(
                    [ran EXCEPT !.operationListeners[operation] = SetDelete(@, listener)],
                    listener)
       IN notifyCallingOperationListeners(after, operation, value, listeners, k + 1, reading)

\* a dispatchEvent that iterates a copy of the listeners of (value, operation)
\* made when the dispatch starts
dispatchEventCallingSnapshot(o, operation, value, reading) ==
  LET begun == [o EXCEPT !.events = Append(@, Event(operation, value, o.store))]
      o1 == notifyCallingOperationListeners(begun, operation, value,
                                            begun.operationListeners[operation], 1, reading)
  IN IF ~Holds(begun, operation, value) THEN o1
     ELSE notifyCallingListeners([o |-> o1,
                                  iterated |-> begun.valueListeners[value][operation].set,
                                  attached |-> FALSE, done |-> 0],
                                 operation, value, reading, {})

\* dispatchEvent with listeners calling on and off
\* (dispatchEvent above is the case in which no listener does)
dispatchEventCalling(o, operation, value, reading) ==
  LET begun == [o EXCEPT !.events = Append(@, Event(operation, value, o.store))]
      o1 == notifyCallingOperationListeners(begun, operation, value,
                                            begun.operationListeners[operation], 1, reading)
  IN IF ~Holds(o1, operation, value) THEN o1
     ELSE notifyCallingListeners([o |-> o1,
                                  iterated |-> o1.valueListeners[value][operation].set,
                                  attached |-> TRUE, done |-> 0],
                                 operation, value, reading, {})

\* delete(value) with such listeners
deleteCalling(o, value, reading) ==
  IF ~has(o, value) THEN o
  ELSE LET o1 == [o EXCEPT !.store = SetDelete(@, value)]
           o2 == dispatchEventCalling(o1, "remove", value, reading)
       IN IF o2.thrown = "none" /\ isEmpty(o2)
            THEN dispatchEventCalling(o2, "empty", value, reading)
            ELSE o2

RECURSIVE clearFrom(_, _)
clearFrom(o, pending) ==
  IF pending = <<>> THEN o
  ELSE LET o1 == delete(o, Head(pending))
       IN clearFrom(o1, SelectSeq(Tail(pending), LAMBDA v : has(o1, v)))

\* a clear that empties the Set as Set.prototype.clear does, without delete
clearWithoutEvents(o) == [o EXCEPT !.store = <<>>]

clear(o) == clearFrom(o, o.store)

\* a clone that is constructed without the members of the original
cloneWithoutValues(o) ==
  [ObSet(<<>>, o.options) EXCEPT
     !.operationListeners = o.operationListeners,
     !.valueListeners = o.valueListeners,
     !.oneTimeListeners = o.oneTimeListeners]

\* clone(): a new ObSet of the members and options, the listeners of each
\* operation added to its own Sets, the MaybeListeners object of each value
\* set in its own Map (the objects themselves are the original's), the
\* one-time listeners pushed to its own array
clone(o) ==
  [ObSet(o.store, o.options) EXCEPT
     !.operationListeners = o.operationListeners,
     !.valueListeners = o.valueListeners,
     !.oneTimeListeners = o.oneTimeListeners]

\* the MaybeListeners object of value as off(operation, value, listener)
\* leaves it, whether or not the Map still holds it afterwards
offBucket(o, operation, value, listener) ==
  IF operation \notin DOMAIN o.valueListeners[value]
       \/ ~o.valueListeners[value][operation].defined THEN o.valueListeners[value]
  ELSE LET o1 == offListener(o, operation, value, listener)
       IN IF o.options.freeUnusedResources /\ Destructurable(o1.valueListeners[value])
            THEN freeSets(o1.valueListeners[value])
            ELSE o1.valueListeners[value]

RECURSIVE hasEvery(_, _)

\* a hasEvery that wants at least one value
hasEveryOfSome(o, values) ==
  values /= <<>> /\ \A i \in 1..Len(values) : has(o, values[i])

\* hasEvery(...values): false at the first value that is not a member
hasEvery(o, values) ==
  IF values = <<>> THEN TRUE
  ELSE IF ~has(o, Head(values)) THEN FALSE
  ELSE hasEvery(o, Tail(values))

\* hasSome(...values): true at the first value that is a member
RECURSIVE hasSome(_, _)
hasSome(o, values) ==
  IF values = <<>> THEN FALSE
  ELSE IF has(o, Head(values)) THEN TRUE
  ELSE hasSome(o, Tail(values))

xor(o, a, b) == has(o, a) /= has(o, b)

\* ------------------------------------------------- ArrayMap of src/ObSet.ts
\* indexes is a Map from value to 0-based slot, values the array of slots
ArrayMap_add(store, value) ==
  IF value \in DOMAIN store.indexes THEN store
  ELSE [indexes |-> (value :> Len(store.values)) @@ store.indexes,
        values |-> Append(store.values, value)]

RECURSIVE ArrayMap_new(_, _)
ArrayMap_new(store, initialValues) ==
  IF initialValues = <<>> THEN store
  ELSE ArrayMap_new(ArrayMap_add(store, Head(initialValues)), Tail(initialValues))

ArrayMap(initialValues) == ArrayMap_new([indexes |-> EmptyMap, values |-> <<>>], initialValues)

ArrayMap_has(store, value) == value \in DOMAIN store.indexes

ArrayMap_size(store) == Len(store.values)

\* remove(value) when indexes holds value: the key is deleted, the last slot's
\* value (undefined when there is no slot) is given the index, the slot is popped
ArrayMap_remove(store, value) ==
  IF value \notin DOMAIN store.indexes THEN store
  ELSE LET i == store.indexes[value]
           last == IF store.values = <<>> THEN UNDEFINED ELSE store.values[Len(store.values)]
       IN [indexes |-> (last :> i) @@ MapDelete(store.indexes, value),
           values |-> swapPop(store.values, i)]

\* ---------------------------------------- the two ObSet classes of src/ObSet.ts
\* lines 6-236 wrap a one-time listener in a closure (registerOneTimeListener);
\* lines 269-479 keep one-time listeners in a Set that notifyListeners consults
Revisions == {"ObSet.ts:6-236", "ObSet.ts:269-479"}

Wrapping == "ObSet.ts:6-236"

ObSet_SET_OPERATIONS == {"add", "empty", "remove"}

\* a listener as the client wrote it, and the closure registerOneTimeListener
\* makes of it for the Set `listeners` of (operation, value) (value undefined
\* for the Set of the operation)
Listener(fn) == [fn |-> fn, closure |-> 0, operation |-> "none", value |-> UNDEFINED]

OneTimeListener(fn, closure, operation, value) ==
  [fn |-> fn, closure |-> closure, operation |-> operation, value |-> value]

ObSet_new(revision, initialValues) ==
  [revision |-> revision,
   store |-> ArrayMap(initialValues),
   oneTimeListeners |-> <<>>,
   operationListeners |-> [op \in ObSet_SET_OPERATIONS |-> <<>>],
   valueListeners |-> EmptyMap,
   closures |-> 0]

ObSet_has(o, value) == ArrayMap_has(o.store, value)

ObSet_size(o) == ArrayMap_size(o.store)

\* the Set a (operation, value) pair names, as it is now
ListenersAt(o, operation, value) ==
  IF value = UNDEFINED THEN o.operationListeners[operation]
  ELSE IF value \in DOMAIN o.valueListeners /\ operation \in DOMAIN o.valueListeners[value]
         /\ o.valueListeners[value][operation].defined
    THEN o.valueListeners[value][operation].set
  ELSE <<>>

DeleteAt(o, operation, value, listener) ==
  IF value = UNDEFINED
    THEN [o EXCEPT !.operationListeners[operation] = SetDelete(@, listener)]
  ELSE IF ListenersAt(o, operation, value) = <<>> THEN o
  ELSE [o EXCEPT !.valueListeners[value][operation].set = SetDelete(@, listener)]

\* the loop of the closure over oneTimeListeners, from index i on
RECURSIVE ObSet_forgetOneTimeListeners(_, _, _)
ObSet_forgetOneTimeListeners(oneTimeListeners, listener, i) ==
  IF i >= Len(oneTimeListeners) THEN oneTimeListeners
  ELSE IF oneTimeListeners[i + 1] = listener
    THEN ObSet_forgetOneTimeListeners(oneTimeListeners, listener, i + 1)
  ELSE ObSet_forgetOneTimeListeners(swapPop(oneTimeListeners, i), listener, i + 1)

\* a call of the closure made by registerOneTimeListener(listener, listeners)
ObSet_oneTimeListener(o, closure, operation, value) ==
  LET listener == Listener(closure.fn)
      called == [o EXCEPT !.invoked = Append(@, <<closure.fn, operation, value>>)]
      deleted == DeleteAt(called, closure.operation, closure.value, listener)
  IN [deleted EXCEPT !.oneTimeListeners = ObSet_forgetOneTimeListeners(@, listener, 0)]

\* notifyListeners of lines 55-61: one pass of `for (const listener of
\* listeners)` over the Set at (operation, at); pending are the listeners not
\* yet visited, and one deleted from the Set before its turn is not visited
RECURSIVE ObSet_notifyListeners(_, _, _, _, _)
ObSet_notifyListeners(o, operation, at, value, pending) ==
  IF pending = <<>> THEN o
  ELSE LET listener == Head(pending)
           after == IF listener.closure = 0
                      THEN [o EXCEPT !.invoked = Append(@, <<listener.fn, operation, value>>)]
                      ELSE ObSet_oneTimeListener(o, listener, operation, value)
           live == ListenersAt(after, operation, at)
       IN ObSet_notifyListeners(after, operation, at, value,
                                SelectSeq(Tail(pending), LAMBDA l : includes(live, l)))

\* notifyListeners of lines 309-320: a listener found in oneTimeListeners is
\* deleted from the Set and from oneTimeListeners once it has been called
RECURSIVE ObSet_notifyListenersTracked(_, _, _, _, _)
ObSet_notifyListenersTracked(o, operation, at, value, pending) ==
  IF pending = <<>> THEN o
  ELSE LET listener == Head(pending)
           called == [o EXCEPT !.invoked = Append(@, <<listener.fn, operation, value>>)]
           after == IF ~includes(called.oneTimeListeners, listener) THEN called
                    ELSE [DeleteAt(called, operation, at, listener) EXCEPT
                            !.oneTimeListeners = SetDelete(@, listener)]
       IN ObSet_notifyListenersTracked(after, operation, at, value, Tail(pending))

ObSet_notify(o, operation, at, value, listeners) ==
  IF o.revision = Wrapping
    THEN ObSet_notifyListeners(o, operation, at, value, listeners)
    ELSE ObSet_notifyListenersTracked(o, operation, at, value, listeners)

ObSet_dispatchEvent(o, operation, value) ==
  LET begun == [o EXCEPT !.events = Append(@, Event(operation, value, o.store.values))]
      o1 == ObSet_notify(begun, operation, UNDEFINED, value,
                         begun.operationListeners[operation])
      eventListeners ==
        IF value \in DOMAIN o1.valueListeners /\ operation \in DOMAIN o1.valueListeners[value]
          THEN o1.valueListeners[value][operation]
          ELSE UndefinedSet
  IN IF ~eventListeners.defined THEN o1
     ELSE ObSet_notify(o1, operation, value, value, eventListeners.set)

ObSet_add(o, value) ==
  IF ~ArrayMap_has(o.store, value)
    THEN ObSet_dispatchEvent([o EXCEPT !.store = ArrayMap_add(@, value)], "add", value)
    ELSE o

\* store.remove(value) && dispatchEvent('remove') && (size || dispatchEvent('empty'))
ObSet_remove(o, value) ==
  IF ~ArrayMap_has(o.store, value) THEN o
  ELSE LET o1 == [o EXCEPT !.store = ArrayMap_remove(@, value)]
           o2 == ObSet_dispatchEvent(o1, "remove", value)
       IN IF ObSet_size(o2) /= 0 THEN o2 ELSE ObSet_dispatchEvent(o2, "empty", value)

\* registerOneTimeListener(listener, listeners), listeners being the Set of
\* (operation, value)
ObSet_registerOneTimeListener(o, fn, operation, value) ==
  LET oneTimeListener == OneTimeListener(fn, o.closures + 1, operation, value)
      o1 == IF value = UNDEFINED
              THEN [o EXCEPT !.operationListeners[operation] = Append(@, oneTimeListener)]
              ELSE [o EXCEPT !.valueListeners[value][operation].set = Append(@, oneTimeListener)]
  IN [o1 EXCEPT !.oneTimeListeners = Append(@, oneTimeListener), !.closures = @ + 1]

\* onOperation of lines 189-195
ObSet_onOperation(o, operation, fn, once) ==
  IF once THEN ObSet_registerOneTimeListener(o, fn, operation, UNDEFINED)
  ELSE [o EXCEPT !.operationListeners[operation] = SetAdd(@, Listener(fn))]

\* onOperation of lines 428-436
ObSet_onOperationTracked(o, operation, fn, once) ==
  LET o1 == [o EXCEPT !.operationListeners[operation] = SetAdd(@, Listener(fn))]
  IN IF once THEN [o1 EXCEPT !.oneTimeListeners = SetAdd(@, Listener(fn))] ELSE o1

\* valueListeners.get(value) ?? initOperationListenersFor(value), then
\* operationListeners[operation] ?? initEventListenersFor(operation, ...)
ObSet_eventListenersFor(o, operation, value) ==
  LET operationListeners ==
        IF value \in DOMAIN o.valueListeners THEN o.valueListeners[value] ELSE EmptyMap
      eventListeners ==
        IF operation \in DOMAIN operationListeners /\ operationListeners[operation].defined
          THEN operationListeners[operation].set
          ELSE <<>>
  IN [o EXCEPT !.valueListeners =
        (value :> ((operation :> SetOf(eventListeners)) @@ operationListeners)) @@ @]

\* onValue of lines 198-206
ObSet_onValue(o, operation, value, fn, once) ==
  LET o1 == ObSet_eventListenersFor(o, operation, value)
  IN IF once THEN ObSet_registerOneTimeListener(o1, fn, operation, value)
     ELSE [o1 EXCEPT !.valueListeners[value][operation].set = SetAdd(@, Listener(fn))]

\* onValue of lines 439-449
ObSet_onValueTracked(o, operation, value, fn, once) ==
  LET o1 == ObSet_eventListenersFor(o, operation, value)
      o2 == [o1 EXCEPT !.valueListeners[value][operation].set = SetAdd(@, Listener(fn))]
  IN IF once THEN [o2 EXCEPT !.oneTimeListeners = SetAdd(@, Listener(fn))] ELSE o2

\* ------------------------- the array-backed ObSet revision (unnamed/part_002)
Backed_SET_OPERATIONS == {"add", "empty", "remove"}

\* the constructor pushes every value of initialValues onto backingStore,
\* without calling add
Backed_new(initialValues) ==
  [backingStore |-> initialValues,
   oneTimeListeners |-> <<>>,
   operationListeners |-> [op \in Backed_SET_OPERATIONS |-> <<>>],
   valueListeners |-> EmptyMap]

Backed_size(o) == Len(o.backingStore)

Backed_isEmpty(o) == Backed_size(o) = 0

Backed_has(o, value) == includes(o.backingStore, value)

\* the two loops are those of dispatchEvent of src/index.ts, line for line
Backed_dispatchEvent(o, operation, value) ==
  LET begun == [o EXCEPT !.events = Append(@, Event(operation, value, o.backingStore))]
      o1 == notifyOperationListeners(begun, operation, value,
                                     begun.operationListeners[operation], 1)
      eventListeners ==
        IF value \in DOMAIN o1.valueListeners /\ operation \in DOMAIN o1.valueListeners[value]
          THEN o1.valueListeners[value][operation]
          ELSE UndefinedSet
  IN IF ~eventListeners.defined THEN o1
     ELSE notifyEventListeners(o1, operation, value, eventListeners.set, 1)

Backed_add(o, value) ==
  IF Backed_has(o, value) THEN o
  ELSE Backed_dispatchEvent([o EXCEPT !.backingStore = Append(@, value)], "add", value)

Backed_remove(o, value) ==
  LET index == indexOf(o.backingStore, value)
  IN IF index = -1 THEN o
     ELSE LET o1 == Backed_dispatchEvent([o EXCEPT !.backingStore = swapPop(@, index)],
                                         "remove", value)
          IN IF Backed_isEmpty(o1) THEN Backed_dispatchEvent(o1, "empty", value) ELSE o1

\* `for (const value of this)`: the array iterator of backingStore reads the
\* slot at its index and the length anew at every step, while remove moves
\* the last value into the slot just read
RECURSIVE Backed_clearFrom(_, _)
Backed_clearFrom(o, nextIndex) ==
  IF nextIndex >= Len(o.backingStore) THEN o
  ELSE Backed_clearFrom(Backed_remove(o, o.backingStore[nextIndex + 1]), nextIndex + 1)

Backed_clear(o) == Backed_clearFrom(o, 0)

Backed_onOperation(o, operation, listener, once) ==
  LET o1 == [o EXCEPT !.operationListeners[operation] = SetAdd(@, listener)]
  IN IF once THEN [o1 EXCEPT !.oneTimeListeners = Append(@, listener)] ELSE o1

\* ------------------------------------------------------------------- state
VARIABLES
  obset,          \* the ObSet instance
  initialValues,  \* the initialValues its constructor was given
  call,           \* the last public call: its name, its argument, has(argument) on entry
  events,         \* the dispatchEvent calls that call made, in order
  invoked,        \* the listener invocations that call made, in order
  thrown,         \* the error that call ended with, or "none"
  lastNamed,      \* per value, the last add/remove call that named it
  registrations,  \* number of on/once calls made
  calls,          \* SpecTrace: every call since construction
  log,            \* SpecTrace: every dispatchEvent call since construction
  arrayMapObSet,  \* SpecArrayMap: the instance of an ObSet class of src/ObSet.ts
  registered,     \* the on/once calls made, in order
  fired,          \* the listeners invoked since they were registered
  cloned,         \* SpecClone: <<the set clone() returned>>, <<>> before the call
  shared,         \* SpecClone: the values whose MaybeListeners object both sets hold
  cloning         \* SpecClone: what has happened since clone() was called

vars == <<obset, initialValues, call, events, invoked, thrown, lastNamed,
          registrations, calls, log, arrayMapObSet, registered, fired,
          cloned, shared, cloning>>

\* known: per set, the listeners registered on it (for the clone, those the
\* original held when it was cloned count); dispatched: the events the clone
\* has dispatched; off: whether off has been called since clone(); at: the
\* listeners of the original when clone() was called
NotCloned ==
  [known |-> [original |-> {}, clone |-> {}], dispatched |-> {}, off |-> FALSE, at |-> <<>>]

ObjectFields ==
  {"store", "options", "leastRecentlyAdded", "mostRecentlyAdded",
   "oneTimeListeners", "operationListeners", "valueListeners"}

\* a call starts on the object with nothing dispatched yet
Enter(o) == o @@ [events |-> <<>>, invoked |-> <<>>, thrown |-> "none"]

Leave(r) == [field \in ObjectFields |-> r[field]]

NoCall == [name |-> "new", value |-> UNDEFINED, had |-> FALSE, before |-> <<>>]

Init ==
  /\ initialValues \in InitialValuesInputs
  /\ \E options \in OptionsInputs : obset = ObSet(initialValues, options)
  /\ call = NoCall
  /\ events = <<>>
  /\ invoked = <<>>
  /\ thrown = "none"
  /\ lastNamed = [v \in Values |-> IF includes(initialValues, v) THEN "add" ELSE "none"]
  /\ registrations = 0
  /\ calls = <<>>
  /\ log = <<>>
  /\ arrayMapObSet = ObSet_new(Wrapping, <<>>)
  /\ registered = <<>>
  /\ fired = {}
  /\ cloned = <<>>
  /\ shared = {}
  /\ cloning = NotCloned

\* add and replace call each other in tail position (`return this.replace(value)`,
\* `return this.add(value)`): a recursion without end exhausts the call stack
\* and the call throws RangeError where the engine keeps a frame for each call,
\* and the call never returns where the engine makes proper tail calls
Outcomes(error) == IF error = Recursion THEN {"RangeError", NeverReturns} ELSE {error}

\* how a call that ended with r is seen to end; nothing is called after a call
\* that never returns
Thrown(r) ==
  /\ thrown /= NeverReturns
  /\ thrown' \in Outcomes(r.thrown)

\* what a call that ended with r leaves behind
Ended(r) ==
  /\ obset' = Leave(r)
  /\ events' = r.events
  /\ invoked' = r.invoked
  /\ Thrown(r)

Returned(r, name, value) ==
  /\ Ended(r)
  /\ call' = [name |-> name, value |-> value, had |-> has(obset, value),
              before |-> obset.store]
  /\ UNCHANGED <<cloned, shared, cloning, initialValues, arrayMapObSet, registered, fired>>

Add(value) == Returned(add(Enter(obset), value), "add", value)

Remove(value) == Returned(delete(Enter(obset), value), "remove", value)

\* on(operation, listener, options) and once(operation, listener)
OnOperation(operation, listener, once) ==
  /\ registrations < MaxRegistrations
  /\ registrations' = registrations + 1
  /\ Returned(onOperation(Enter(obset), operation, listener, once),
              IF once THEN "once" ELSE "on", UNDEFINED)

\* on(operation, value, listener, options) and once(operation, value, listener)
OnValue(operation, value, listener, once) ==
  /\ registrations < MaxRegistrations
  /\ registrations' = registrations + 1
  /\ Returned(onValue(Enter(obset), operation, value, listener, once),
              IF once THEN "once" ELSE "on", value)

\* the histories: which call named a value last, and everything since construction
Named == lastNamed' = IF call'.name \in {"add", "remove"}
                        THEN [lastNamed EXCEPT ![call'.value] = call'.name]
                        ELSE lastNamed

Traced ==
  /\ Len(calls) < MaxCalls
  /\ calls' = Append(calls, <<call'.name, call'.value>>)
  /\ log' = log \o events'

Members(store) == {store[i] : i \in 1..Len(store)}

Bounded(o) == o.options.capacity.finite /\ o.options.capacity.n >= 1

Capacity(o) == o.options.capacity.n

\* ---------------------------------------------------------- specifications
\* Spec: a client that adds and removes values (and registers no listener)
Next ==
  \/ \E value \in Values : Add(value) /\ Named /\ UNCHANGED <<registrations, calls, log>>
  \/ \E value \in Values : Remove(value) /\ Named /\ UNCHANGED <<registrations, calls, log>>

Spec == Init /\ [][Next]_vars

\* SpecQueries: the same client, also asking hasEvery, hasSome and xor
\* a query returns result for the values it was given; it calls has and
\* nothing else
Queried(name, values, result) ==
  /\ Ended(Enter(obset))
  /\ call' = [name |-> name, value |-> UNDEFINED, had |-> FALSE, before |-> obset.store,
              values |-> values, result |-> result]
  /\ UNCHANGED <<cloned, shared, cloning, initialValues, arrayMapObSet, registered, fired,
                 registrations, lastNamed, calls, log>>

HasEvery(values) == Queried("hasEvery", values, hasEvery(obset, values))

HasSome(values) == Queried("hasSome", values, hasSome(obset, values))

Xor(a, b) == Queried("xor", <<a, b>>, xor(obset, a, b))

NextQueries ==
  \/ \E value \in Values : Add(value) /\ Named /\ UNCHANGED <<registrations, calls, log>>
  \/ \E value \in Values : Remove(value) /\ Named /\ UNCHANGED <<registrations, calls, log>>
  \/ \E values \in InitialValuesInputs : HasEvery(values)
  \/ \E values \in InitialValuesInputs : HasSome(values)
  \/ \E a \in Values, b \in Values : Xor(a, b)

SpecQueries == Init /\ [][NextQueries]_vars

\* SpecTrace: the same client, with every call and event since construction kept
NextTrace ==
  \/ \E value \in Values : Add(value) /\ Traced /\ UNCHANGED <<registrations, lastNamed>>
  \/ \E value \in Values : Remove(value) /\ Traced /\ UNCHANGED <<registrations, lastNamed>>

SpecTrace == Init /\ [][NextTrace]_vars

\* SpecListeners: a client that also registers listeners and works with the
\* values of ListenedValues, on a set without a finite capacity (no capacity
\* option, or capacity 0)
ListenedValues == {"a", "b"}

InitListeners ==
  /\ Init
  /\ Len(initialValues) <= 1
  /\ Members(initialValues) \subseteq ListenedValues
  /\ ~Bounded(obset)
  /\ obset.options.replacementPolicy = "FIFO"

Unobserved == UNCHANGED <<lastNamed, calls, log>>

NextListeners ==
  \/ \E value \in ListenedValues : Add(value) /\ Unobserved /\ UNCHANGED registrations
  \/ \E value \in ListenedValues : Remove(value) /\ Unobserved /\ UNCHANGED registrations
  \/ \E operation \in SET_OPERATIONS, listener \in ListenerIds, once \in BOOLEAN :
       OnOperation(operation, listener, once) /\ Unobserved
  \/ \E operation \in SET_OPERATIONS, value \in ListenedValues,
          listener \in ListenerIds, once \in BOOLEAN :
       OnValue(operation, value, listener, once) /\ Unobserved

SpecListeners == InitListeners /\ [][NextListeners]_vars

\* ----------------------------------------- ObSet of src/index.ts with off
\* capacity 0 is falsy: isFull is never true, the set is unbounded
OffOptionsInputs ==
  {[capacity |-> c, freeUnusedResources |-> free, replacementPolicy |-> "FIFO"] :
     c \in {POSITIVE_INFINITY, Num(0)}, free \in BOOLEAN}

InitOff ==
  /\ initialValues = <<>>
  /\ \E options \in OffOptionsInputs : obset = ObSet(initialValues, options)
  /\ call = NoCall
  /\ events = <<>>
  /\ invoked = <<>>
  /\ thrown = "none"
  /\ lastNamed = [v \in Values |-> IF includes(initialValues, v) THEN "add" ELSE "none"]
  /\ registrations = 0
  /\ calls = <<>>
  /\ log = <<>>
  /\ arrayMapObSet = ObSet_new(Wrapping, <<>>)
  /\ registered = <<>>
  /\ fired = {}
  /\ cloned = <<>>
  /\ shared = {}
  /\ cloning = NotCloned

\* the listeners the set holds for (operation, value), value undefined for the
\* listeners of the operation
Bucket(o, operation, value) ==
  IF value = UNDEFINED THEN o.operationListeners[operation]
  ELSE IF value \in DOMAIN o.valueListeners /\ operation \in DOMAIN o.valueListeners[value]
         /\ o.valueListeners[value][operation].defined
    THEN o.valueListeners[value][operation].set
  ELSE <<>>

\* a call of on/once/off: the call record also names the operation and listener
ListenerCall(r, name, operation, value, listener) ==
  /\ Ended(r)
  /\ call' = [name |-> name, value |-> value, had |-> has(obset, value),
              before |-> obset.store, operation |-> operation, listener |-> listener]
  /\ UNCHANGED <<cloned, shared, cloning, initialValues, arrayMapObSet, registrations, lastNamed, calls, log>>

\* on(operation, listener, options) and on(operation, value, listener, options),
\* once(...) being on with once: true; value is undefined in the first form.
\* added records whether the listener was new to the Set it was added to.
On(operation, value, listener, once) ==
  /\ Len(registered) < MaxListeners
  /\ registered' = Append(registered,
       [fn |-> listener, operation |-> operation, value |-> value, once |-> once,
        added |-> ~includes(Bucket(obset, operation, value), listener)])
  /\ fired' = fired \ {listener}
  /\ ListenerCall(IF value = UNDEFINED
                    THEN onOperation(Enter(obset), operation, listener, once)
                    ELSE onValue(Enter(obset), operation, value, listener, once),
                  IF once THEN "once" ELSE "on", operation, value, listener)

Off(operation, value, listener) ==
  /\ \E reading \in EmptyReadings :
       ListenerCall(off(Enter(obset), operation, value, listener, reading),
                    "off", operation, value, listener)
  /\ UNCHANGED <<registered, fired>>

\* add and remove with the histories of the listeners
Dispatching(r, name, value) ==
  /\ Ended(r)
  /\ call' = [name |-> name, value |-> value, had |-> has(obset, value),
              before |-> obset.store]
  /\ fired' = fired \cup {r.invoked[k][1] : k \in 1..Len(r.invoked)}
  /\ UNCHANGED <<cloned, shared, cloning, initialValues, arrayMapObSet, registrations, lastNamed, calls, log,
                 registered>>

\* the operations the client listens to, and the value it scopes listeners to
ListenedOperations == {"add", "remove"}

ScopedValues == {"a"}

NextOff ==
  \/ \E value \in ListenedValues : Dispatching(add(Enter(obset), value), "add", value)
  \/ \E value \in ListenedValues : Dispatching(delete(Enter(obset), value), "remove", value)
  \/ Dispatching(clear(Enter(obset)), "clear", UNDEFINED)
  \/ \E operation \in ListenedOperations, value \in ScopedValues \cup {UNDEFINED},
          listener \in ListenerIds, once \in BOOLEAN :
       On(operation, value, listener, once)
  \/ \E operation \in ListenedOperations, value \in ScopedValues, listener \in ListenerIds :
       Off(operation, value, listener)

SpecOff == InitOff /\ [][NextOff]_vars

\* --------------------- ObSet of src/index.ts with listeners that call on/off
\* A client registers listeners for the remove event of a value, some of which
\* call off and on for that event while they are invoked, and adds and removes
\* values.  The capacity is 0, with which isFull is false and add replaces
\* nothing, so the only remove events are those of the client's remove calls.
InitCalling == InitOff /\ obset.options.capacity = Num(0)

CallingRemove(value) ==
  \E reading \in EmptyReadings :
    Dispatching(deleteCalling(Enter(obset), value, reading), "remove", value)

NextCalling ==
  \/ \E value \in ListenedValues : Dispatching(add(Enter(obset), value), "add", value)
  \/ \E value \in ListenedValues : CallingRemove(value)
  \/ \E value \in ScopedValues, listener \in CallingIds, once \in BOOLEAN :
       On("remove", value, listener, once)
  \/ \E value \in ScopedValues, listener \in CallingIds : Off("remove", value, listener)

SpecCalling == InitCalling /\ [][NextCalling]_vars

\* SpecRegistering: the same client with listeners that register a listener
\* while they are invoked, for the remove event of a value or for every remove
\* event
NextRegistering ==
  \/ \E value \in ListenedValues : Dispatching(add(Enter(obset), value), "add", value)
  \/ \E value \in ListenedValues : CallingRemove(value)
  \/ \E value \in ScopedValues \cup {UNDEFINED}, listener \in RegisteringIds, once \in BOOLEAN :
       On("remove", value, listener, once)
  \/ \E value \in ScopedValues, listener \in RegisteringIds : Off("remove", value, listener)

SpecRegistering == InitCalling /\ [][NextRegistering]_vars

\* ------------------------------------- ObSet of src/index.ts with clone
\* A client constructs an empty set, registers listeners, clones the set once
\* and goes on calling add, remove, on, once and off on either set.

Targets == {"original", "clone"}

\* the capacity is the default one
InitClone == InitOff /\ obset.options.capacity = POSITIVE_INFINITY

\* the sets the client holds
Callable == IF cloned = <<>> THEN {"original"} ELSE Targets

Self(target) == IF target = "original" THEN obset ELSE cloned[1]

\* every listener the set holds, for an operation or for a value
AllListeners(o) ==
  UNION {{o.operationListeners[operation][k] : k \in 1..Len(o.operationListeners[operation])} :
           operation \in SET_OPERATIONS} \cup
  UNION {{Bucket(o, operation, value)[k] : k \in 1..Len(Bucket(o, operation, value))} :
           value \in DOMAIN o.valueListeners, operation \in SET_OPERATIONS}

\* the other set after a call on one set: it holds the same MaybeListeners
\* object for every shared value, so it sees what the call did to that object;
\* gone is the object of the value an off call deleted from the Map
Other(o, r, gone) ==
  [o EXCEPT !.valueListeners =
     [value \in DOMAIN @ |->
        IF value \notin shared THEN @[value]
        ELSE IF value \in DOMAIN r.valueListeners THEN r.valueListeners[value]
        ELSE gone]]

\* a call on one of the two sets that ended with r
Called(target, r, gone, name, operation, value, listener) ==
  /\ events' = r.events
  /\ invoked' = r.invoked
  /\ Thrown(r)
  /\ call' = [name |-> name, value |-> value, operation |-> operation,
              listener |-> listener, target |-> target]
  /\ IF target = "original"
       THEN /\ obset' = Leave(r)
            /\ cloned' = IF cloned = <<>> THEN <<>> ELSE <<Other(cloned[1], r, gone)>>
       ELSE /\ cloned' = <<Leave(r)>>
            /\ obset' = Other(obset, r, gone)
  /\ shared' = shared \cap DOMAIN r.valueListeners
  /\ UNCHANGED <<initialValues, arrayMapObSet, lastNamed, calls, log, fired, registered>>

\* clone() on the original
Clone ==
  /\ cloned = <<>>
  /\ cloned' = <<clone(obset)>>
  /\ shared' = DOMAIN obset.valueListeners
  /\ cloning' = [known |-> [original |-> AllListeners(obset), clone |-> AllListeners(obset)],
                 dispatched |-> {}, off |-> FALSE,
                 at |-> <<[operationListeners |-> obset.operationListeners,
                           valueListeners |-> obset.valueListeners]>>]
  /\ call' = [name |-> "clone", value |-> UNDEFINED, operation |-> UNDEFINED,
              listener |-> UNDEFINED, target |-> "original"]
  /\ events' = <<>>
  /\ invoked' = <<>>
  /\ thrown' = "none"
  /\ UNCHANGED <<obset, initialValues, arrayMapObSet, registrations, lastNamed, calls, log,
                 fired, registered>>

CloneOn(target, operation, value, listener, once) ==
  /\ registrations < MaxListeners
  /\ registrations' = registrations + 1
  /\ cloning' = IF cloned = <<>> THEN cloning
                ELSE [cloning EXCEPT !.known[target] = @ \cup {listener}]
  /\ Called(target,
            IF value = UNDEFINED
              THEN onOperation(Enter(Self(target)), operation, listener, once)
              ELSE onValue(Enter(Self(target)), operation, value, listener, once),
            UndefinedSet, IF once THEN "once" ELSE "on", operation, value, listener)

CloneOff(target, operation, value, listener) ==
  /\ \E reading \in EmptyReadings :
       Called(target, off(Enter(Self(target)), operation, value, listener, reading),
              IF value \in DOMAIN Self(target).valueListeners
                THEN offBucket(Self(target), operation, value, listener)
                ELSE UndefinedSet,
              "off", operation, value, listener)
  /\ cloning' = IF cloned = <<>> THEN cloning ELSE [cloning EXCEPT !.off = TRUE]
  /\ UNCHANGED registrations

\* add and remove on one of the two sets
CloneDispatching(target, r, name, value) ==
  /\ Called(target, r, UndefinedSet, name, UNDEFINED, value, UNDEFINED)
  /\ cloning' = IF target = "original" THEN cloning
                ELSE [cloning EXCEPT !.dispatched =
                        @ \cup {r.events[k].operation : k \in 1..Len(r.events)}]
  /\ UNCHANGED registrations

\* the operation the client of the two sets listens to
ClonedOperations == {"add"}

NextClone ==
  \/ Clone
  \/ \E target \in Callable, value \in ScopedValues :
       CloneDispatching(target, add(Enter(Self(target)), value), "add", value)
  \/ \E target \in Callable, value \in ScopedValues :
       CloneDispatching(target, delete(Enter(Self(target)), value), "remove", value)
  \/ \E target \in Callable, operation \in ClonedOperations,
          value \in ScopedValues \cup {UNDEFINED}, listener \in ListenerIds, once \in BOOLEAN :
       CloneOn(target, operation, value, listener, once)
  \/ \E target \in Callable, operation \in ClonedOperations, value \in ScopedValues,
          listener \in ListenerIds :
       CloneOff(target, operation, value, listener)

SpecClone == InitClone /\ [][NextClone]_vars

\* SpecCloneOff: a client that registers and removes listeners of two
\* operations on a set and its clone, and dispatches nothing
NextCloneOff ==
  \/ Clone
  \/ \E target \in Callable, operation \in ListenedOperations,
          value \in ScopedValues \cup {UNDEFINED}, listener \in ListenerIds, once \in BOOLEAN :
       CloneOn(target, operation, value, listener, once)
  \/ \E target \in Callable, operation \in ListenedOperations, value \in ScopedValues,
          listener \in ListenerIds :
       CloneOff(target, operation, value, listener)

SpecCloneOff == InitClone /\ [][NextCloneOff]_vars

\* SpecTwin: a client that adds and removes values, clones the set at some
\* point and from then on makes every add and remove call on the original and
\* then on the clone.  A call on the original that never returns is the last.
TwinCalled(r, twin, name, value) ==
  /\ cloned /= <<>>
  /\ Ended(r)
  /\ cloned' = IF thrown' = NeverReturns THEN cloned ELSE <<Leave(twin)>>
  /\ call' = [name |-> name, value |-> value, had |-> has(obset, value),
              before |-> obset.store]
  /\ UNCHANGED <<shared, cloning, initialValues, arrayMapObSet, registered, fired,
                 registrations, calls, log>>

TwinAdd(value) ==
  TwinCalled(add(Enter(obset), value), add(Enter(cloned[1]), value), "add", value)

TwinRemove(value) ==
  TwinCalled(delete(Enter(obset), value), delete(Enter(cloned[1]), value), "remove", value)

NextTwin ==
  \/ \E value \in Values :
       cloned = <<>> /\ Add(value) /\ Named /\ UNCHANGED <<registrations, calls, log>>
  \/ \E value \in Values :
       cloned = <<>> /\ Remove(value) /\ Named /\ UNCHANGED <<registrations, calls, log>>
  \/ thrown /= NeverReturns /\ Clone
  \/ \E value \in Values : TwinAdd(value) /\ Named
  \/ \E value \in Values : TwinRemove(value) /\ Named

SpecTwin == Init /\ [][NextTwin]_vars

\* ------------------------------------------- the ObSet classes of src/ObSet.ts
ArrayMapObSetFields ==
  {"revision", "store", "oneTimeListeners", "operationListeners", "valueListeners",
   "closures"}

InitArrayMap ==
  /\ initialValues \in InitialValuesInputs
  /\ Members(initialValues) \subseteq ListenedValues
  /\ \E revision \in Revisions : arrayMapObSet = ObSet_new(revision, initialValues)
  /\ obset = ObSet(<<>>, DefaultOptions)
  /\ call = NoCall
  /\ events = <<>>
  /\ invoked = <<>>
  /\ thrown = "none"
  /\ lastNamed = [v \in Values |-> IF includes(initialValues, v) THEN "add" ELSE "none"]
  /\ registrations = 0
  /\ calls = <<>>
  /\ log = <<>>
  /\ registered = <<>>
  /\ fired = {}
  /\ cloned = <<>>
  /\ shared = {}
  /\ cloning = NotCloned

Fns(invocations) == {invocations[k][1] : k \in 1..Len(invocations)}

\* call.had is whether the internal array held the value on entry
ArrayMapReturned(r, name, value) ==
  /\ arrayMapObSet' = [field \in ArrayMapObSetFields |-> r[field]]
  /\ events' = r.events
  /\ invoked' = r.invoked
  /\ thrown' = r.thrown
  /\ call' = [name |-> name, value |-> value,
              had |-> includes(arrayMapObSet.store.values, value),
              before |-> arrayMapObSet.store.values]
  /\ UNCHANGED <<cloned, shared, cloning, initialValues, obset, calls, log>>

\* ArrayMap.remove can leave a removed value in the internal array, so the
\* array can grow past the number of values: add is explored up to MaxLength
ArrayMapAdd(value) ==
  /\ ArrayMap_size(arrayMapObSet.store) < MaxLength
  /\ ArrayMapReturned(ObSet_add(Enter(arrayMapObSet), value), "add", value)
  /\ fired' = fired \cup Fns(invoked')
  /\ UNCHANGED <<registrations, registered>>

ArrayMapRemove(value) ==
  /\ ArrayMapReturned(ObSet_remove(Enter(arrayMapObSet), value), "remove", value)
  /\ fired' = fired \cup Fns(invoked')
  /\ UNCHANGED <<registrations, registered>>

Registration(operation, value, listener, once) ==
  [fn |-> listener, operation |-> operation, value |-> value, once |-> once]

ArrayMapOnOperation(operation, listener, once) ==
  /\ registrations < MaxRegistrations
  /\ registrations' = registrations + 1
  /\ registered' = Append(registered, Registration(operation, UNDEFINED, listener, once))
  /\ fired' = fired \ {listener}
  /\ ArrayMapReturned(IF arrayMapObSet.revision = Wrapping
                        THEN ObSet_onOperation(Enter(arrayMapObSet), operation, listener, once)
                        ELSE ObSet_onOperationTracked(Enter(arrayMapObSet), operation,
                                                      listener, once),
                      IF once THEN "once" ELSE "on", UNDEFINED)

ArrayMapOnValue(operation, value, listener, once) ==
  /\ registrations < MaxRegistrations
  /\ registrations' = registrations + 1
  /\ registered' = Append(registered, Registration(operation, value, listener, once))
  /\ fired' = fired \ {listener}
  /\ ArrayMapReturned(IF arrayMapObSet.revision = Wrapping
                        THEN ObSet_onValue(Enter(arrayMapObSet), operation, value,
                                           listener, once)
                        ELSE ObSet_onValueTracked(Enter(arrayMapObSet), operation, value,
                                                  listener, once),
                      IF once THEN "once" ELSE "on", value)

NextArrayMap ==
  \/ \E value \in ListenedValues : ArrayMapAdd(value) /\ Named
  \/ \E value \in ListenedValues : ArrayMapRemove(value) /\ Named
  \/ \E operation \in ObSet_SET_OPERATIONS, listener \in ListenerIds, once \in BOOLEAN :
       ArrayMapOnOperation(operation, listener, once) /\ Named
  \/ \E operation \in ObSet_SET_OPERATIONS, value \in ListenedValues,
          listener \in ListenerIds, once \in BOOLEAN :
       ArrayMapOnValue(operation, value, listener, once) /\ Named

SpecArrayMap == InitArrayMap /\ [][NextArrayMap]_vars

\* ------------------ SpecHeard: a set whose add and remove events are listened to
\* the listeners of the client that follows the membership: passive, not
\* one-shot, registered for every value right after construction
AddListener == "f"

RemoveListener == "g"

InitHeard ==
  /\ initialValues \in InitialValuesInputs
  /\ \E options \in OptionsInputs :
       obset = Leave(onOperation(onOperation(Enter(ObSet(initialValues, options)),
                                             "add", AddListener, FALSE),
                                 "remove", RemoveListener, FALSE))
  /\ call = NoCall
  /\ events = <<>>
  /\ invoked = <<>>
  /\ thrown = "none"
  /\ lastNamed = [v \in Values |-> IF includes(initialValues, v) THEN "add" ELSE "none"]
  /\ registrations = 0
  /\ calls = <<>>
  /\ log = <<>>
  /\ arrayMapObSet = ObSet_new(Wrapping, <<>>)
  /\ registered = <<>>
  /\ fired = {}
  /\ cloned = <<>>
  /\ shared = {}
  /\ cloning = NotCloned

Clear == Returned(clear(Enter(obset)), "clear", UNDEFINED)

NextHeard ==
  \/ \E value \in Values : Add(value) /\ Named /\ UNCHANGED <<registrations, calls, log>>
  \/ \E value \in Values : Remove(value) /\ Named /\ UNCHANGED <<registrations, calls, log>>
  \/ Clear /\ Named /\ UNCHANGED <<registrations, calls, log>>

SpecHeard == InitHeard /\ [][NextHeard]_vars

\* --------------------------- the array-backed revision under its public calls
BackedFields == {"backingStore", "oneTimeListeners", "operationListeners", "valueListeners"}

InitBacked ==
  /\ initialValues \in InitialValuesInputs
  /\ obset = Backed_new(initialValues)
  /\ call = NoCall
  /\ events = <<>>
  /\ invoked = <<>>
  /\ thrown = "none"
  /\ lastNamed = [v \in Values |-> IF includes(initialValues, v) THEN "add" ELSE "none"]
  /\ registrations = 0
  /\ calls = <<>>
  /\ log = <<>>
  /\ arrayMapObSet = ObSet_new(Wrapping, <<>>)
  /\ registered = <<>>
  /\ fired = {}
  /\ cloned = <<>>
  /\ shared = {}
  /\ cloning = NotCloned

\* call.had is whether backingStore held the value on entry, call.before is
\* backingStore on entry
BackedReturned(r, name, value) ==
  /\ obset' = [field \in BackedFields |-> r[field]]
  /\ events' = r.events
  /\ invoked' = r.invoked
  /\ thrown' = r.thrown
  /\ call' = [name |-> name, value |-> value, had |-> Backed_has(obset, value),
              before |-> obset.backingStore]
  /\ UNCHANGED <<cloned, shared, cloning, initialValues, arrayMapObSet, calls, log,
                 registered, fired, lastNamed>>

BackedAdd(value) ==
  /\ BackedReturned(Backed_add(Enter(obset), value), "add", value)
  /\ UNCHANGED registrations

BackedRemove(value) ==
  /\ BackedReturned(Backed_remove(Enter(obset), value), "remove", value)
  /\ UNCHANGED registrations

BackedClear ==
  /\ BackedReturned(Backed_clear(Enter(obset)), "clear", UNDEFINED)
  /\ UNCHANGED registrations

BackedOnOperation(operation, listener, once) ==
  /\ registrations < MaxRegistrations
  /\ registrations' = registrations + 1
  /\ BackedReturned(Backed_onOperation(Enter(obset), operation, listener, once),
                    IF once THEN "once" ELSE "on", UNDEFINED)

NextBacked ==
  \/ \E value \in Values : BackedAdd(value)
  \/ \E value \in Values : BackedRemove(value)
  \/ BackedClear
  \/ \E operation \in Backed_SET_OPERATIONS, listener \in ListenerIds, once \in BOOLEAN :
       BackedOnOperation(operation, listener, once)

SpecBacked == InitBacked /\ [][NextBacked]_vars

\* ------------------------------------------------------------------ claims
Operations(evs) == [i \in 1..Len(evs) |-> <<evs[i].operation, evs[i].value>>]

\* the last call was add(v) of a value that was not a member, and it returned
AddedNew == call.name = "add" /\ ~call.had /\ thrown = "none"

\* C1: in a set constructed without a capacity option, a value is a member
\* exactly when the last call that named it was add (initial values count as
\* added): no add evicts another member.
C1_UnboundedMembership ==
  obset.options = DefaultOptions =>
    \A v \in Values : has(obset, v) <=> lastNamed[v] = "add"

\* C2: with capacity c >= 1 and at most c initial values, size never exceeds c.
C2_SizeWithinCapacity ==
  (Bounded(obset) /\ Len(initialValues) <= Capacity(obset)) => size(obset) <= Capacity(obset)

\* C3: in a bounded FIFO set holding exactly capacity members, add of a
\* non-member removes exactly the earliest inserted member and inserts the value.
C3_FifoEvictsEarliest ==
  (/\ call.name = "add" /\ ~call.had
   /\ Bounded(obset) /\ obset.options.replacementPolicy = "FIFO"
   /\ Len(call.before) = Capacity(obset))
    => /\ thrown = "none"
       /\ Members(obset.store) = (Members(call.before) \ {Head(call.before)}) \cup {call.value}
       /\ size(obset) = Capacity(obset)

\* C4: in a bounded LIFO set holding exactly capacity members, add of a
\* non-member removes exactly the most recently inserted member and inserts the value.
C4_LifoEvictsLatest ==
  (/\ call.name = "add" /\ ~call.had
   /\ Bounded(obset) /\ obset.options.replacementPolicy = "LIFO"
   /\ Len(call.before) = Capacity(obset))
    => /\ thrown = "none"
       /\ Members(obset.store) =
            (Members(call.before) \ {call.before[Len(call.before)]}) \cup {call.value}
       /\ size(obset) = Capacity(obset)

\* C5: on an empty set with capacity 2 and policy FIFO, add(x); add(y); add(z)
\* of three distinct values dispatch exactly add(x), add(y), full(y),
\* remove(x), add(z), full(z).
C5_FifoEventSequence ==
  \A x, y, z \in Values :
    (/\ initialValues = <<>>
     /\ obset.options.capacity = Num(2) /\ obset.options.replacementPolicy = "FIFO"
     /\ Cardinality({x, y, z}) = 3
     /\ calls = << <<"add", x>>, <<"add", y>>, <<"add", z>> >>)
      => Operations(log) = << <<"add", x>>, <<"add", y>>, <<"full", y>>,
                              <<"remove", x>>, <<"add", z>>, <<"full", z>> >>

\* C6: add(v) of a member changes nothing: the object (members, trackers,
\* listener registrations) is unchanged, no event is dispatched and no listener
\* is invoked.
C6_AddOfMemberChangesNothing ==
  [][(call'.name = "add" /\ call'.had)
       => (obset' = obset /\ events' = <<>> /\ invoked' = <<>> /\ thrown' = "none")]_vars

\* add(v) of a member v was called while a listener of add that v would reach
\* was registered
C6_Witness ==
  /\ call.name = "add" /\ call.had
  /\ \/ obset.operationListeners["add"] /= <<>>
     \/ /\ call.value \in DOMAIN obset.valueListeners
        /\ "add" \in DOMAIN obset.valueListeners[call.value]

\* C7: remove(v) of a value the set does not hold (never added, or added and
\* already removed: the last call that named it was not add, and the internal
\* array does not hold it) changes nothing: the object is as it was, no remove
\* or empty event is dispatched and no listener is invoked.
C7_RemoveOfNonMemberChangesNothing ==
  [][(call'.name = "remove" /\ ~call'.had /\ lastNamed[call'.value] /= "add")
       => (arrayMapObSet' = arrayMapObSet /\ events' = <<>> /\ invoked' = <<>>)]_vars

\* C8: a remove that takes the set from one member to none dispatches remove
\* and then empty for that value, each once; and every empty event follows the
\* remove event of the same value and finds the set without members.
C8_RemoveThenEmpty ==
  /\ (call.name = "remove" /\ call.had /\ Len(call.before) = 1)
       => Operations(events) = << <<"remove", call.value>>, <<"empty", call.value>> >>
  /\ \A i \in 1..Len(events) :
       events[i].operation = "empty"
         => /\ events[i].store = <<>>
            /\ i > 1
            /\ events[i - 1].operation = "remove"
            /\ events[i - 1].value = events[i].value

C8_Witness ==
  /\ call.name = "remove" /\ call.had /\ Len(call.before) = 1
  /\ Len(events) = 2 /\ events[2].operation = "empty"

\* the same order in the ObSet classes of src/ObSet.ts (under SpecArrayMap): a
\* remove that takes the internal array from one value to none dispatches
\* remove and then empty, and every empty event follows the remove event of the
\* same value and finds the array empty
ArrayMapRemoveThenEmpty ==
  /\ (call.name = "remove" /\ call.had /\ Len(call.before) = 1
        /\ arrayMapObSet.store.values = <<>>)
       => Operations(events) = << <<"remove", call.value>>, <<"empty", call.value>> >>
  /\ \A i \in 1..Len(events) :
       events[i].operation = "empty"
         => /\ events[i].store = <<>>
            /\ i > 1
            /\ events[i - 1].operation = "remove"
            /\ events[i - 1].value = events[i].value

\* C9: a successful add(v) dispatches add(v) and then full(v) exactly when the
\* set is bounded and its size after the insertion equals its capacity.
C9_FullOnlyAtCapacity ==
  AddedNew =>
    /\ \E i \in 1..Len(events) :
         /\ Operations(events)[i] = <<"add", call.value>>
         /\ \A j \in 1..Len(events) : events[j].operation = "full" => j = i + 1
    /\ (\E j \in 1..Len(events) : Operations(events)[j] = <<"full", call.value>>)
         <=> (Bounded(obset) /\ size(obset) = Capacity(obset))

\* C10: a listener registered once with once(operation, listener) is invoked by
\* the first add/remove call that dispatches the operation, once, and by no
\* later call: over n >= 1 matching events it is invoked exactly once.
C10_OnceListenerFiresOnce ==
  [][\A k \in 1..Len(registered) :
       LET r == registered[k]
           alone == Cardinality({j \in 1..Len(registered) : registered[j].fn = r.fn}) = 1
           matching == \E i \in 1..Len(events') : events'[i].operation = r.operation
           times == Cardinality({i \in 1..Len(invoked') : invoked'[i][1] = r.fn})
       IN (r.once /\ r.value = UNDEFINED /\ alone /\ call'.name \in {"add", "remove"})
            => times = (IF matching /\ r.fn \notin fired THEN 1 ELSE 0)]_vars

\* how often a call invoked a listener, and the listeners it invoked for an event
Times(invocations, fn) == Cardinality({i \in 1..Len(invocations) : invocations[i][1] = fn})

InvokedFor(invocations, event) ==
  {invocations[i][1] : i \in {j \in 1..Len(invocations) :
                                /\ invocations[j][2] = event.operation
                                /\ invocations[j][3] = event.value}}

\* fn was registered by exactly one on/once call, and that call was once
SingleOneShot(fn) ==
  /\ Cardinality({k \in 1..Len(registered) : registered[k].fn = fn}) = 1
  /\ \A k \in 1..Len(registered) : registered[k].fn = fn => registered[k].once

\* C11: a one-shot listener registered in one bucket is invoked at most once by
\* a call and not at all once it has fired; the call that invokes it leaves it
\* out of its listener set; and the dispatch that invokes it also invokes every
\* other listener its bucket held.
C11_OneShotRemovedAfterInvocation ==
  [][call'.name \in {"add", "remove"} =>
       \A k \in 1..Len(registered) :
         LET r == registered[k]
         IN SingleOneShot(r.fn) =>
              /\ Times(invoked', r.fn) <= 1
              /\ r.fn \in fired => Times(invoked', r.fn) = 0
              /\ Times(invoked', r.fn) = 1 =>
                   /\ ~includes(Bucket(obset', r.operation, r.value), r.fn)
                   /\ \E i \in 1..Len(events') :
                        /\ events'[i].operation = r.operation
                        /\ r.value \in {UNDEFINED, events'[i].value}
                        /\ Members(Bucket(obset, r.operation, r.value))
                             \subseteq InvokedFor(invoked', events'[i])]_vars

\* fn was registered, and by once calls only
OneShot(fn) ==
  /\ \E k \in 1..Len(registered) : registered[k].fn = fn
  /\ \A k \in 1..Len(registered) : registered[k].fn = fn => registered[k].once

\* C12: a callback registered only as one-shot, in one bucket or in several,
\* is invoked at most once after it was registered: at most once by the call
\* that invokes it first, and by no later call.
C12_OneShotInvokedAtMostOnce ==
  [][call'.name \in {"add", "remove"} =>
       \A fn \in ListenerIds :
         OneShot(fn) => Times(invoked', fn) <= (IF fn \in fired THEN 0 ELSE 1)]_vars

\* the registration that put fn into the Set of (operation, value): the last
\* on/once call for that bucket that found fn absent from it
Effective(fn, operation, value) ==
  {k \in 1..Len(registered) :
     /\ registered[k].fn = fn /\ registered[k].operation = operation
     /\ registered[k].value = value /\ registered[k].added}

Latest(ks) == CHOOSE k \in ks : \A j \in ks : j <= k

\* the invocations at positions within `among` are of listeners of the bucket
\* (operation, value), in the order of their registrations
InRegistrationOrder(among, operation, value) ==
  /\ \A i \in among : Effective(invoked[i][1], operation, value) /= {}
  /\ \A i, j \in among :
       i < j => Latest(Effective(invoked[i][1], operation, value))
                  < Latest(Effective(invoked[j][1], operation, value))

\* C13: within the dispatch of an event (operation, value) the listeners of
\* the operation are invoked before the listeners scoped to (operation,
\* value), and within each scope in the order in which they were registered.
C13_GlobalBeforeScopedInOrder ==
  \A e \in 1..Len(events) :
    LET for == {i \in 1..Len(invoked) : /\ invoked[i][2] = events[e].operation
                                        /\ invoked[i][3] = events[e].value}
    IN \E n \in 0..Len(invoked) :
         /\ InRegistrationOrder({i \in for : i <= n}, events[e].operation, UNDEFINED)
         /\ InRegistrationOrder({i \in for : i > n}, events[e].operation, events[e].value)

\* a listener scoped to the value was registered first and a listener of the
\* operation second, and the call invoked the second before the first
C13_Witness ==
  /\ call.name = "add" /\ Len(invoked) = 2 /\ Len(registered) = 2
  /\ registered[1].value /= UNDEFINED /\ registered[2].value = UNDEFINED
  /\ registered[1].fn /= registered[2].fn
  /\ invoked[1][1] = registered[2].fn /\ invoked[2][1] = registered[1].fn

\* the events of remove(v) for each v of members in turn
RECURSIVE RemovedOneByOne(_)
RemovedOneByOne(members) ==
  IF members = <<>> THEN <<>>
  ELSE IF Len(members) = 1 THEN << <<"remove", members[1]>>, <<"empty", members[1]>> >>
  ELSE << <<"remove", members[1]>> >> \o RemovedOneByOne(Tail(members))

\* C14: clear() leaves the set empty and dispatches what remove of each member
\* in turn dispatches: one remove event per former member and then one empty
\* event for the last of them, each event reaching the listeners of its
\* operation once; clear() of an empty set dispatches nothing.
C14_ClearRemovesOneByOne ==
  call.name = "clear" =>
    /\ thrown = "none"
    /\ obset.store = <<>>
    /\ Operations(events) = RemovedOneByOne(call.before)
    /\ \A fn \in Members(Bucket(obset, "remove", UNDEFINED)) :
         Times(invoked, fn) >= Len(call.before)

C14_Witness ==
  /\ call.name = "clear" /\ Len(call.before) = 2
  /\ Len(events) = 3 /\ Len(invoked) >= 2

\* C15: the set clone() returns has the members of the original, the call
\* dispatches no event and leaves the original as it was; afterwards an add or
\* remove on one of the two sets leaves the members and the size of the other
\* set as they were.
C15_CloneIsIndependent ==
  [][/\ call'.name = "clone"
          => /\ Members(cloned'[1].store) = Members(obset.store)
             /\ size(cloned'[1]) = size(obset)
             /\ obset' = obset
             /\ events' = <<>> /\ invoked' = <<>> /\ thrown' = "none"
     /\ (cloned /= <<>> /\ call'.name \in {"add", "remove"})
          => IF call'.target = "original"
               THEN Members(cloned'[1].store) = Members(cloned[1].store) /\ size(cloned'[1]) = size(cloned[1])
               ELSE Members(obset'.store) = Members(obset.store) /\ size(obset') = size(obset)]_vars

\* a remove on the clone took a member out of it that the original still has
C15_Witness ==
  /\ call.name = "remove" /\ call.target = "clone" /\ events /= <<>>
  /\ Members(obset.store) = {"a"} /\ Members(cloned[1].store) = {}

\* the listeners the original held for an event when clone() was called
HeldAtClone(event) ==
  LET global == Bucket(cloning.at[1], event.operation, UNDEFINED)
      scoped == Bucket(cloning.at[1], event.operation, event.value)
  IN {global[k] : k \in 1..Len(global)} \cup {scoped[k] : k \in 1..Len(scoped)}

\* C16: the first event of an operation that the clone dispatches after
\* clone() invokes every listener the original held for that event when it was
\* cloned, whatever the original has dispatched since (no off call in between).
C16_CloneInvokesInheritedListeners ==
  [][(cloned /= <<>> /\ call'.target = "clone" /\ call'.name \in {"add", "remove"}
        /\ ~cloning.off)
       => \A k \in 1..Len(events') :
            (/\ events'[k].operation \notin cloning.dispatched
             /\ \A j \in 1..(k - 1) : events'[j].operation /= events'[k].operation)
              => HeldAtClone(events'[k]) \subseteq InvokedFor(invoked', events'[k])]_vars

\* the listeners a set holds, bucket by bucket
Buckets(o) ==
  [operation \in SET_OPERATIONS, value \in ScopedValues \cup {UNDEFINED} |->
     Bucket(o, operation, value)]

\* C17: after clone(), an event of one set invokes only listeners registered
\* on that set (for the clone, those the original held when it was cloned
\* count as its own), and off on one set leaves the listeners of the other
\* set as they were.
C17_RegistrationsAffectOneSet ==
  [][/\ (cloned /= <<>> /\ call'.name \in {"add", "remove"})
          => Fns(invoked') \subseteq cloning.known[call'.target]
     /\ (cloned /= <<>> /\ call'.name = "off")
          => IF call'.target = "original"
               THEN Buckets(cloned'[1]) = Buckets(cloned[1])
               ELSE Buckets(obset') = Buckets(obset)]_vars

\* C18: off(operation, value, listener) takes that listener out of the
\* listeners of (operation, value) and leaves every other listener of every
\* bucket registered, so that it still fires on its events.
C18_OffRemovesOnlyThatListener ==
  [][call'.name = "off"
       => /\ thrown' = "none"
          /\ \A operation \in SET_OPERATIONS, value \in ScopedValues \cup {UNDEFINED} :
               Bucket(obset', operation, value) =
                 IF operation = call'.operation /\ value = call'.value
                   THEN SetDelete(Bucket(obset, operation, value), call'.listener)
                   ELSE Bucket(obset, operation, value)]_vars

\* C19: off(operation, value, listener) for a listener that the listeners of
\* (operation, value) do not hold raises no error and leaves every registered
\* listener, and the one-time listeners, as they were.
C19_OffOfUnregisteredChangesNothing ==
  [][(/\ call'.name = "off"
      /\ ~includes(Bucket(obset, call'.operation, call'.value), call'.listener))
       => /\ thrown' = "none"
          /\ Buckets(obset') = Buckets(obset)
          /\ obset'.oneTimeListeners = obset.oneTimeListeners]_vars

\* the listeners of (operation, value) that remain registered after the off
\* call of the step
Remaining(operation, value) ==
  IF operation = call'.operation /\ value = call'.value
    THEN SetDelete(Bucket(obset, operation, value), call'.listener)
    ELSE Bucket(obset, operation, value)

\* C20: with freeUnusedResources true, after an off call for a value the value
\* is a key of valueListeners exactly if some operation still has a listener
\* registered for the value: the key goes with the last listener of the value
\* and stays otherwise.
C20_KeyIffListenersRemain ==
  [][(call'.name = "off" /\ obset.options.freeUnusedResources)
       => /\ thrown' = "none"
          /\ call'.value \in DOMAIN obset'.valueListeners
               <=> \E operation \in SET_OPERATIONS : Remaining(operation, call'.value) /= <<>>]_vars

\* C21: in the ArrayMap, indexes maps v to i exactly if values[i] is v, indexes
\* has as many entries as values has slots, and no value occurs twice in values.
C21_IndexesMatchValues ==
  LET store == arrayMapObSet.store
  IN /\ \A v \in DOMAIN store.indexes :
          /\ store.indexes[v] < Len(store.values)
          /\ store.values[store.indexes[v] + 1] = v
     /\ \A i \in 1..Len(store.values) :
          /\ store.values[i] \in DOMAIN store.indexes
          /\ store.indexes[store.values[i]] = i - 1
     /\ Cardinality(DOMAIN store.indexes) = Len(store.values)
     /\ \A i, j \in 1..Len(store.values) : store.values[i] = store.values[j] => i = j

\* C22: a remove(v) of a value that indexes holds (ArrayMap.remove returns
\* true) leaves has(v) false, size one less, and has(w) true for every other
\* value w it held.
C22_RemoveTakesOutOneValue ==
  [][(call'.name = "remove" /\ ArrayMap_has(arrayMapObSet.store, call'.value))
       => /\ ~ArrayMap_has(arrayMapObSet'.store, call'.value)
          /\ ArrayMap_size(arrayMapObSet'.store) = ArrayMap_size(arrayMapObSet.store) - 1
          /\ \A w \in Values \ {call'.value} :
               ArrayMap_has(arrayMapObSet.store, w) => ArrayMap_has(arrayMapObSet'.store, w)]_vars

\* C30: an add(v) that directly follows a remove(v) which took v out of the
\* internal array (it dispatched remove) adds v again: it dispatches add, has(v)
\* is true and size is one more than before the add.
C30_AddAfterRemoveAddsAgain ==
  [][(/\ call.name = "remove" /\ call.had
      /\ \E i \in 1..Len(events) : events[i].operation = "remove"
      /\ call'.name = "add" /\ call'.value = call.value)
       => /\ ArrayMap_has(arrayMapObSet'.store, call'.value)
          /\ ArrayMap_size(arrayMapObSet'.store) = ArrayMap_size(arrayMapObSet.store) + 1
          /\ \E i \in 1..Len(events') : events'[i].operation = "add"]_vars

\* C29: in the ObSet classes on ArrayMap the store is changed before the event
\* is dispatched and not again during the call, so a listener sees the store the
\* call leaves: for an add event of v has(v) is true; for a remove event of v
\* has(v) is false and size is one less than before the call; for an empty
\* event size is 0 and has is false for every value.
C29_ListenersSeeTheMutation ==
  \A i \in 1..Len(events) :
    LET event == events[i]
        store == arrayMapObSet.store
    IN /\ event.store = store.values
       /\ event.operation = "add" => ArrayMap_has(store, event.value)
       /\ event.operation = "remove"
            => ~ArrayMap_has(store, event.value) /\ ArrayMap_size(store) = Len(call.before) - 1
       /\ event.operation = "empty"
            => ArrayMap_size(store) = 0 /\ \A v \in Values : ~ArrayMap_has(store, v)

\* C26: a set constructed with initial values has dispatched no event and
\* invoked no listener, its size is the number of distinct initial values and
\* each of them is a member; the ArrayMap constructed with the same values
\* likewise holds each distinct value once.
C26_ConstructorCollapsesDuplicates ==
  call.name = "new"
    => /\ events = <<>> /\ invoked = <<>>
       /\ size(obset) = Cardinality(Members(initialValues))
       /\ \A v \in Members(initialValues) : has(obset, v)
       /\ ArrayMap_size(ArrayMap(initialValues)) = Cardinality(Members(initialValues))
       /\ \A v \in Members(initialValues) : ArrayMap_has(ArrayMap(initialValues), v)

\* the constructor was given the same value twice
C26_Witness ==
  /\ call.name = "new" /\ Len(initialValues) = 2 /\ initialValues[1] = initialValues[2]
  /\ size(obset) = 1

\* C27: hasEvery(values) is true exactly if every value given is a member (so
\* true for none given), hasSome(values) exactly if at least one is (so false
\* for none given), xor(a, b) exactly if one of a and b is a member and the
\* other is not; the three leave the members as they were and dispatch nothing.
C27_QueriesTellMembership ==
  /\ call.name = "hasEvery"
       => call.result = (\A v \in Members(call.values) : has(obset, v))
  /\ call.name = "hasSome"
       => call.result = (\E v \in Members(call.values) : has(obset, v))
  /\ call.name = "xor"
       => call.result = (has(obset, call.values[1]) /= has(obset, call.values[2]))
  /\ call.name \in {"hasEvery", "hasSome", "xor"}
       => obset.store = call.before /\ events = <<>> /\ invoked = <<>> /\ thrown = "none"

\* hasEvery() was asked of a set with members and no value given
C27_Witness ==
  call.name = "hasEvery" /\ call.values = <<>> /\ call.result /\ obset.store /= <<>>

\* C28: isFull is true exactly if the set has a positive finite capacity and
\* holds at least that many members (so never for an empty set, an unbounded
\* set, or a bounded set below its capacity), in either revision of the getter.
C28_FullExactlyAtCapacity ==
  /\ isFull(obset) <=> (Bounded(obset) /\ size(obset) >= Capacity(obset))
  /\ earlier_isFull(obset) <=> (Bounded(obset) /\ size(obset) >= Capacity(obset))

\* the value replace would delete
Victim(o) ==
  IF o.options.replacementPolicy = "FIFO" THEN o.leastRecentlyAdded ELSE o.mostRecentlyAdded

\* C23: an add(v) of a new value to a bounded set that reports itself full
\* while the value replace would delete is not a member ends with an error: the
\* call returns neither normally nor never.
C23_FailedEvictionIsFatal ==
  [][(/\ call'.name = "add" /\ ~has(obset, call'.value)
      /\ Bounded(obset) /\ isFull(obset) /\ ~has(obset, Victim(obset)))
       => thrown' \notin {"none", NeverReturns}]_vars

\* C24: a dispatch pass ends, and invokes no listener more than once for an
\* event, also when listeners call off and on for the Set that is iterated.
C24_PassEndsWithoutRevisit ==
  [][call'.name = "remove"
       => /\ thrown' /= NeverReturns
          /\ \A i \in 1..Len(events'), fn \in CallingIds :
               Cardinality({k \in 1..Len(invoked') :
                              invoked'[k] = <<fn, events'[i].operation, events'[i].value>>}) <= 1]_vars

\* C25: a listener that is registered for the event when the pass starts and
\* is removed with off by a listener the pass invokes before it is still
\* invoked in that pass.
C25_RemovedListenerStillInvoked ==
  [][(/\ call'.name = "remove" /\ call'.had /\ thrown' = "none"
      /\ includes(Bucket(obset, "remove", call'.value), "dropF")
      /\ indexOf(Bucket(obset, "remove", call'.value), "dropF")
           < indexOf(Bucket(obset, "remove", call'.value), "f"))
       => <<"f", "remove", call'.value>> \in {invoked'[k] : k \in 1..Len(invoked')}]_vars

\* whether any listener is registered on the array-backed set
BackedListens(o) ==
  \/ \E operation \in Backed_SET_OPERATIONS : Len(o.operationListeners[operation]) > 0
  \/ DOMAIN o.valueListeners /= {}

\* C31: after clear() returns on an array-backed set without listeners, size
\* is 0 and has(v) is false for every v, however many members it had
C31_ClearEmptiesTheSet ==
  [][(call'.name = "clear" /\ ~BackedListens(obset))
       => (Backed_size(obset') = 0 /\ \A v \in Values : ~Backed_has(obset', v))]_vars

\* C32: the backing store of the array-backed revision never holds a value
\* twice, also right after construction from a sequence with duplicates, so
\* one remove(v) that found v makes has(v) false
C32_BackingStoreHasNoDuplicates ==
  /\ \A i, j \in 1..Len(obset.backingStore) :
       obset.backingStore[i] = obset.backingStore[j] => i = j
  /\ (call.name = "remove" /\ call.had) => ~Backed_has(obset, call.value)

\* C33: in every state of a bounded, non-empty set the value tracked for the
\* replacement policy (leastRecentlyAdded for FIFO, mostRecentlyAdded for
\* LIFO) is a member, after any sequence of add, remove and evictions
C33_TrackedValueIsMember ==
  (Bounded(obset) /\ ~isEmpty(obset)) => has(obset, Victim(obset))

\* the members a client holds after the invocations of its add and remove
\* listeners, starting from members
RECURSIVE Replayed(_, _)
Replayed(members, invocations) ==
  IF invocations = <<>> THEN members
  ELSE LET heard == Head(invocations)
           next == IF heard[1] = AddListener /\ heard[2] = "add"
                     THEN members \cup {heard[3]}
                   ELSE IF heard[1] = RemoveListener /\ heard[2] = "remove"
                     THEN members \ {heard[3]}
                   ELSE members
       IN Replayed(next, Tail(invocations))

\* every add heard names a value that was not a member and every remove heard
\* names one that was
RECURSIVE RealChanges(_, _)
RealChanges(members, invocations) ==
  \/ invocations = <<>>
  \/ LET heard == Head(invocations)
     IN /\ (heard[1] = AddListener /\ heard[2] = "add") => heard[3] \notin members
        /\ (heard[1] = RemoveListener /\ heard[2] = "remove") => heard[3] \in members
        /\ RealChanges(Replayed(members, <<heard>>), Tail(invocations))

\* C34: the members are the initial values plus the values of the add events
\* heard minus those of the remove events heard: the set starts with the
\* initial values, every call takes the members it found to the members the
\* events heard during the call give, and every such event is a real change
C34_MembersFollowEvents ==
  /\ (call = NoCall) => Members(obset.store) = Members(initialValues)
  /\ [][/\ Members(obset'.store) = Replayed(Members(obset.store), invoked')
        /\ RealChanges(Members(obset.store), invoked')]_vars

\* an add evicted a member: a remove and an add were heard in one call
C34_Witness ==
  /\ call.name = "add"
  /\ thrown = "none"
  /\ \E i, j \in 1..Len(invoked) :
       /\ i < j
       /\ invoked[i][1] = RemoveListener /\ invoked[i][2] = "remove"
       /\ invoked[j][1] = AddListener /\ invoked[j][2] = "add"
       /\ invoked[i][3] \in Members(call.before)
       /\ invoked[i][3] \notin Members(obset.store)
       /\ invoked[j][3] \in Members(obset.store)

\* the listener was registered for (operation, value) with on and never with once
Persistent(fn, operation, value) ==
  /\ \E k \in 1..Len(registered) :
       /\ registered[k].fn = fn /\ registered[k].operation = operation
       /\ registered[k].value = value /\ ~registered[k].once
  /\ \A k \in 1..Len(registered) :
       (/\ registered[k].fn = fn /\ registered[k].operation = operation
        /\ registered[k].value = value) => ~registered[k].once

\* C35: a listener registered with on, without once, for (operation, value)
\* and held in that bucket is still held there after any add, remove or clear
\* call, and is invoked for every event of that bucket the call dispatches,
\* whatever else the same callback is registered for
C35_PersistentListenerStays ==
  [][call'.name \in {"add", "remove", "clear"}
       => \A operation \in ListenedOperations, value \in ScopedValues \cup {UNDEFINED},
             fn \in ListenerIds :
            (Persistent(fn, operation, value)
               /\ includes(Bucket(obset, operation, value), fn))
              => /\ includes(Bucket(obset', operation, value), fn)
                 /\ \A i \in 1..Len(events') :
                      (/\ events'[i].operation = operation
                       /\ value \in {UNDEFINED, events'[i].value})
                        => \E k \in 1..Len(invoked') :
                             invoked'[k] = <<fn, operation, events'[i].value>>]_vars

\* the calls of on and of off that the k-th invoked listener has made when it
\* reaches the p-th call of its body
CallsOn(invocations, k, p) ==
  p \in 1..Len(Body(invocations[k][1])) /\ Body(invocations[k][1])[p].name = "on"

CallsOffBefore(invocations, k, p) ==
  \E q \in 1..Len(Body(invocations[k][1])) :
    q < p /\ Body(invocations[k][1])[q].name = "off"

\* the listener that call registers is invoked in the pass for the same event
InvokedInPass(invocations, k, p) ==
  \E j \in 1..Len(invocations) :
    invocations[j] = <<Body(invocations[k][1])[p].listener,
                       invocations[k][2], invocations[k][3]>>

\* the first loop of a pass invokes the listeners the operation had when the
\* pass began; the invocations after those are made by the second loop
Scoped(o, invocations, i) == i > Len(o.operationListeners[invocations[i][2]])

\* off has been called in the second loop of the pass before that call
FreedBefore(o, invocations, k, p) ==
  \E i \in 1..k :
    /\ Scoped(o, invocations, i)
    /\ CallsOffBefore(invocations, i, IF i = k THEN p ELSE Len(Body(invocations[i][1])) + 1)

C37_OffNeverThrows ==
  [][call'.name = "off" => thrown' = "none"]_vars

\* the values a call took out of the set: those of its remove events
Removed(evs) == {evs[i].value : i \in {k \in 1..Len(evs) : evs[k].operation = "remove"}}

\* C38: from clone() on, the same add and remove calls made on the original
\* and on the clone leave both with the same members after every call, and
\* take the same values out of both
C38_CloneFollowsOriginal ==
  /\ []((cloned /= <<>> /\ thrown /= NeverReturns)
          => Members(cloned[1].store) = Members(obset.store))
  /\ [][(cloned /= <<>> /\ call'.name = "add" /\ thrown' /= NeverReturns)
          => Removed(events') = Removed(add(Enter(cloned[1]), call'.value).events)]_vars

====
